---- MODULE Spec2Model ----
(***************************************************************************)
(* A model of mcp-serial-hid-kvm: the tool dispatcher call_tool            *)
(* (server.py), the capture logger, the adaptive JPEG encoder of           *)
(* capture_screen, and the OCR helper TerminalOCR (ocr.py).                *)
(*                                                                         *)
(* call_tool is a coroutine: the code between two awaits runs without      *)
(* interruption, so one action executes one such segment.  A handler is    *)
(* written down as the list of its statements (Program) and executed by    *)
(* Run, which stops at an await, a return or a raise.  What the peers do   *)
(* (the KVM server, the file system, Pillow, tesseract) is an input of the *)
(* action, the record env.                                                 *)
(***************************************************************************)
EXTENDS Integers, Sequences, FiniteSets, TLC

VARIABLES
    client,           \* server.py _client: "None", "Unconnected", "Connected"
    ocr,              \* server.py _ocr: "None", "Created"
    made,             \* how many handles were constructed / connect() calls made
    capture_log_dir,  \* config.capture_log_dir: "None" or a directory
    disk,             \* the log directory: does it exist, the files in it
    clock,            \* datetime.now(), in whole seconds
    inv,              \* the invocations of call_tool that are suspended at an await
    out,              \* what the invocation that finished last gave its caller
    frame_in,         \* adaptive encoder alone: the frame
    enc_out,          \* adaptive encoder alone: the encodings made, in order
    text_in,          \* _postprocess_text alone: the raw text
    text_out,         \* _postprocess_text alone: the cleaned text
    img_in,           \* preprocess_image alone: the frame
    img_out           \* preprocess_image alone: the stages of the pipeline

vars == <<client, ocr, made, capture_log_dir, disk, clock, inv, out,
          frame_in, enc_out, text_in, text_out, img_in, img_out>>

dispatcher_vars == <<client, ocr, made, capture_log_dir, disk, clock, inv, out>>
encoder_vars == <<frame_in, enc_out>>
text_vars == <<text_in, text_out>>
image_vars == <<img_in, img_out>>

None == "None"

Last(s) == s[Len(s)]

Min(a, b) == IF a < b THEN a ELSE b

Max(a, b) == IF a > b THEN a ELSE b

\* dict.get(k): the value as a one-element sequence, <<>> for Python's None
Opt(a, k) == IF k \in DOMAIN a THEN <<a[k]>> ELSE <<>>

\* dict.get(k, d)
GetOr(a, k, d) == IF k \in DOMAIN a THEN a[k] ELSE d

Without(a, k) == [x \in DOMAIN a \ {k} |-> a[x]]

----------------------------------------------------------------------------
(* The adaptive encoder of capture_screen.                                 *)

InitialQuality == 85
SizeCeiling == 10000000
QualityFloor == 20
QualityStep == 15
FallbackQuality == 60

\* every quality image.save can be asked for at full size
Ladder == {85, 70, 55, 40, 25, 10}

\* one call of image.save(buffer, format="JPEG", quality=q) on a w x h image
Encoding(w, h, q) == [w |-> w, h |-> h, quality |-> q]

\* buffer.tell() after that call: the frame says how large each encoding is
SizeOf(image, e) ==
    IF e.w = image.w /\ e.h = image.h THEN image.size[e.quality] ELSE image.half

RECURSIVE ReduceQualityUnchecked(_, _, _)
\* the loop without its size test: while quality > 20
ReduceQualityUnchecked(image, quality, saves) ==
    IF quality > QualityFloor
    THEN ReduceQualityUnchecked(image, quality - QualityStep,
                                Append(saves, Encoding(image.w, image.h,
                                                       quality - QualityStep)))
    ELSE saves

RECURSIVE ReduceQualityAboveFloor(_, _, _)
\* the loop never going below the floor: while ... and quality - 15 > 20
ReduceQualityAboveFloor(image, quality, saves) ==
    IF SizeOf(image, Last(saves)) > SizeCeiling /\ quality - QualityStep > QualityFloor
    THEN ReduceQualityAboveFloor(image, quality - QualityStep,
                                 Append(saves, Encoding(image.w, image.h,
                                                        quality - QualityStep)))
    ELSE saves

RECURSIVE ReduceQuality(_, _, _)
\* while buffer.tell() > 10_000_000 and quality > 20: quality -= 15; save
ReduceQuality(image, quality, saves) ==
    IF SizeOf(image, Last(saves)) > SizeCeiling /\ quality > QualityFloor
    THEN ReduceQuality(image, quality - QualityStep,
                       Append(saves, Encoding(image.w, image.h, quality - QualityStep)))
    ELSE saves

\* the encoder shrinking a second time when the half-size encoding is too large
AdaptiveEncodeShrinkingTwice(image) ==
    LET saves == ReduceQuality(image, InitialQuality,
                               <<Encoding(image.w, image.h, InitialQuality)>>)
        half == Encoding(image.w \div 2, image.h \div 2, FallbackQuality)
    IN  IF SizeOf(image, Last(saves)) > SizeCeiling
        THEN IF SizeOf(image, half) > SizeCeiling
             THEN saves \o <<half, Encoding(image.w \div 4, image.h \div 4, FallbackQuality)>>
             ELSE Append(saves, half)
        ELSE saves

\* the saves of capture_screen, in order; the last one is the buffer returned
AdaptiveEncode(image) ==
    LET saves == ReduceQuality(image, InitialQuality,
                               <<Encoding(image.w, image.h, InitialQuality)>>)
    IN  IF SizeOf(image, Last(saves)) > SizeCeiling
        THEN Append(saves, Encoding(image.w \div 2, image.h \div 2, FallbackQuality))
        ELSE saves

----------------------------------------------------------------------------
(* ocr.py: TerminalOCR._postprocess_text.  A text is a sequence of         *)
(* characters, each a one-character string.                                *)

NL == "\n"

\* what str.rstrip() and str.strip() remove
Whitespace == {" ", NL, "\t"}

RECURSIVE Split(_)
\* text.split("\n")
Split(s) ==
    IF \A i \in 1..Len(s) : s[i] # NL THEN <<s>>
    ELSE LET i == CHOOSE k \in 1..Len(s) : s[k] = NL /\ \A j \in 1..(k - 1) : s[j] # NL
         IN  <<SubSeq(s, 1, i - 1)>> \o Split(SubSeq(s, i + 1, Len(s)))

RECURSIVE rstrip(_)
rstrip(s) ==
    IF s # <<>> /\ Last(s) \in Whitespace THEN rstrip(SubSeq(s, 1, Len(s) - 1)) ELSE s

RECURSIVE lstrip(_)
lstrip(s) == IF s # <<>> /\ Head(s) \in Whitespace THEN lstrip(Tail(s)) ELSE s

\* str.strip()
strip(s) == lstrip(rstrip(s))

RECURSIVE Join(_)
\* "\n".join(lines)
Join(lines) ==
    IF lines = <<>> THEN <<>>
    ELSE IF Len(lines) = 1 THEN lines[1]
    ELSE lines[1] \o <<NL>> \o Join(Tail(lines))

RECURSIVE LeadingNewlines(_)
LeadingNewlines(s) ==
    IF s # <<>> /\ Head(s) = NL THEN 1 + LeadingNewlines(Tail(s)) ELSE 0

RECURSIVE SubRuns(_, _)
\* re.sub of every maximal run of at least min newlines by three newlines
SubRuns(s, min) ==
    IF s = <<>> THEN s
    ELSE LET n == LeadingNewlines(s)
         IN  IF n >= min THEN <<NL, NL, NL>> \o SubRuns(SubSeq(s, n + 1, Len(s)), min)
             ELSE IF n > 0 THEN SubSeq(s, 1, n) \o SubRuns(SubSeq(s, n + 1, Len(s)), min)
             ELSE <<Head(s)>> \o SubRuns(Tail(s), min)

\* re.sub(r"\n{5,}", "\n\n\n", result): only runs of more than four newlines
CollapseLongerRuns(s) == SubRuns(s, 5)

\* re.sub(r"\n{4,}", "\n\n\n", result)
CollapseNewlines(s) == SubRuns(s, 4)

RECURSIVE Replace(_, _, _)
\* str.replace(old, new): leftmost matches, not overlapping
Replace(s, old, new) ==
    IF Len(s) < Len(old) THEN s
    ELSE IF SubSeq(s, 1, Len(old)) = old
         THEN new \o Replace(SubSeq(s, Len(old) + 1, Len(s)), old, new)
         ELSE <<Head(s)>> \o Replace(Tail(s), old, new)

\* safe_corrections with the first replacement written without its leading space
safe_corrections_typo ==
    << << <<" ", "|", "s", " ">>, <<"l", "s", " ">> >>,
       << <<" ", "|", "s", NL>>,  <<" ", "l", "s", NL>> >>,
       << <<NL, "|", "s", " ">>,  <<NL, "l", "s", " ">> >> >>

\* safe_corrections, in the order the dict is iterated
safe_corrections ==
    << << <<" ", "|", "s", " ">>, <<" ", "l", "s", " ">> >>,
       << <<" ", "|", "s", NL>>,  <<" ", "l", "s", NL>> >>,
       << <<NL, "|", "s", " ">>,  <<NL, "l", "s", " ">> >> >>

RECURSIVE ApplyCorrections(_, _)
\* for wrong, correct in corrections: result = result.replace(wrong, correct)
ApplyCorrections(s, corrections) ==
    IF corrections = <<>> THEN s
    ELSE ApplyCorrections(Replace(s, Head(corrections)[1], Head(corrections)[2]),
                          Tail(corrections))

\* the lines of the text, each without its trailing whitespace
CleanedLines(text) == LET lines == Split(text) IN [i \in 1..Len(lines) |-> rstrip(lines[i])]

_postprocess_text(text) ==
    strip(ApplyCorrections(CollapseNewlines(Join(CleanedLines(text))), safe_corrections))

----------------------------------------------------------------------------
(* ocr.py: TerminalOCR.extract_text, with the recognition engine as an     *)
(* input: it answers a raw text or fails with a reason.                    *)

EngineOk == "ok"

\* f"[OCR Error: {str(e)}]"
OcrErrorText(reason) == <<"[OCR Error: ", reason, "]">>

\* extract_text with the except clause left out: the failure propagates
extract_text_unguarded(engine, raw) ==
    IF engine = EngineOk
    THEN [raised |-> FALSE, text |-> _postprocess_text(raw), reason |-> engine]
    ELSE [raised |-> TRUE, text |-> <<>>, reason |-> engine]

\* extract_text answering a marker that leaves the reason out
extract_text_no_reason(engine, raw) ==
    IF engine = EngineOk
    THEN [raised |-> FALSE, text |-> _postprocess_text(raw), reason |-> engine]
    ELSE [raised |-> FALSE, text |-> <<"[OCR Error]">>, reason |-> engine]

\* lines 67-75: try: image_to_string; _postprocess_text / except Exception: marker
extract_text(engine, raw) ==
    IF engine = EngineOk
    THEN [raised |-> FALSE, text |-> _postprocess_text(raw), reason |-> engine]
    ELSE [raised |-> FALSE, text |-> OcrErrorText(engine), reason |-> engine]

----------------------------------------------------------------------------
(* server.py: the statements of call_tool.                                 *)

\* the classes the modelled failures belong to; each derives from Exception
ExceptionClasses ==
    {"KvmClientError", "KeyError", "OSError", "UnidentifiedImageError", "ZeroDivisionError",
     "TesseractError"}

Exc(cls, msg) == [cls |-> cls, msg |-> msg]

NoExc == Exc("-", "-")

TextContent(text) == [type |-> "text", text |-> text]

ImageContent(data) == [type |-> "image", data |-> data, mimeType |-> "image/jpeg"]

\* the statements a handler is made of
GetClient == [op |-> "get_client"]
Arg(a, k) == [op |-> "arg", key |-> k, present |-> k \in DOMAIN a]
Remote(call, args) == [op |-> "remote", call |-> call, args |-> args]
Sleep(ms) == [op |-> "sleep", ms |-> ms]
Capture == [op |-> "capture"]
Log(suffix) == [op |-> "log", suffix |-> suffix]
Encode == [op |-> "encode"]
Ocr == [op |-> "ocr"]
Return(kind, text) == [op |-> "return", kind |-> kind, text |-> text]

\* "+".join(modifiers) + "+" if modifiers else ""
RECURSIVE mod_str(_)
mod_str(modifiers) ==
    IF modifiers = <<>> THEN <<>>
    ELSE <<Head(modifiers), "+">> \o mod_str(Tail(modifiers))

Abs(n) == IF n < 0 THEN -n ELSE n

\* the waits of mouse_drag and the first wait of execute_and_read, in ms
DragWait == 50
TypeWait == 100
\* wait_seconds when the argument is absent, in ms
DefaultWait == 1000
\* _capture_image(quality: int = 85)
CaptureQuality == 85
\* default_delay_ms when absent
DefaultStepDelay == 100

\* lines 344-348
type_text(a) ==
    << GetClient, Arg(a, "text"),
       Remote("type_text", <<GetOr(a, "text", <<>>), Opt(a, "char_delay_ms")>>),
       Return("text", <<"Typed ", Len(GetOr(a, "text", <<>>)), " characters">>) >>

\* lines 350-355
send_key(a) ==
    << GetClient, Arg(a, "key"),
       Remote("send_key", <<GetOr(a, "key", ""), GetOr(a, "modifiers", <<>>)>>),
       Return("text", <<"Sent: ">> \o mod_str(GetOr(a, "modifiers", <<>>))
                        \o <<GetOr(a, "key", "")>>) >>

\* send_key_sequence sending its steps one by one
send_key_sequence_unbatched(a) ==
    LET steps == GetOr(a, "steps", <<>>)
    IN  << GetClient, Arg(a, "steps") >>
        \o [k \in 1..Len(steps) |-> Remote("send_key", <<steps[k].key, <<>>>>)]
        \o << Return("text", <<"Sent ", Len(steps), " key steps">>) >>

\* lines 357-361
send_key_sequence(a) ==
    << GetClient, Arg(a, "steps"),
       Remote("send_key_sequence",
              <<GetOr(a, "steps", <<>>), GetOr(a, "default_delay_ms", DefaultStepDelay)>>),
       Return("text", <<"Sent ", Len(GetOr(a, "steps", <<>>)), " key steps">>) >>

\* lines 363-371
mouse_move(a) ==
    LET x == GetOr(a, "x", 0)
        y == GetOr(a, "y", 0)
        relative == GetOr(a, "relative", FALSE)
    IN  << GetClient, Arg(a, "x"), Arg(a, "y"),
           Remote("mouse_move", <<x, y, relative>>),
           Return("text", IF relative THEN <<"Moved mouse by (", x, ", ", y, ")">>
                                      ELSE <<"Moved mouse to (", x, ", ", y, ")">>) >>

\* lines 373-379
mouse_click(a) ==
    LET button == GetOr(a, "button", "left")
        x == Opt(a, "x")
        y == Opt(a, "y")
        pos_str == IF x # <<>> /\ y # <<>> THEN <<" at (", x[1], ", ", y[1], ")">> ELSE <<>>
    IN  << GetClient,
           Remote("mouse_click", <<button, x, y>>),
           Return("text", <<"Clicked ", button>> \o pos_str) >>

\* mouse_drag releasing the button where it was pressed and without the second wait
mouse_drag_up_at_start(a) ==
    LET start_x == GetOr(a, "start_x", 0)
        start_y == GetOr(a, "start_y", 0)
        end_x == GetOr(a, "end_x", 0)
        end_y == GetOr(a, "end_y", 0)
        button == GetOr(a, "button", "left")
    IN  << GetClient,
           Arg(a, "start_x"), Arg(a, "start_y"), Arg(a, "end_x"), Arg(a, "end_y"),
           Remote("mouse_down", <<button, start_x, start_y>>),
           Sleep(DragWait),
           Remote("mouse_move", <<end_x, end_y>>),
           Remote("mouse_up", <<button, start_x, start_y>>),
           Return("text", <<"Dragged ", button, " from (", start_x, ", ", start_y,
                            ") to (", end_x, ", ", end_y, ")">>) >>

\* mouse_drag with a click at the end point added to its three calls
mouse_drag_four_calls(a) ==
    LET start_x == GetOr(a, "start_x", 0)
        start_y == GetOr(a, "start_y", 0)
        end_x == GetOr(a, "end_x", 0)
        end_y == GetOr(a, "end_y", 0)
        button == GetOr(a, "button", "left")
    IN  << GetClient,
           Arg(a, "start_x"), Arg(a, "start_y"), Arg(a, "end_x"), Arg(a, "end_y"),
           Remote("mouse_down", <<button, start_x, start_y>>),
           Sleep(DragWait),
           Remote("mouse_move", <<end_x, end_y>>),
           Sleep(DragWait),
           Remote("mouse_up", <<button, end_x, end_y>>),
           Remote("mouse_click", <<button, <<end_x>>, <<end_y>>>>),
           Return("text", <<"Dragged ", button, " from (", start_x, ", ", start_y,
                            ") to (", end_x, ", ", end_y, ")">>) >>

\* mouse_drag moving to the end point in two steps, with a wait after each
mouse_drag_interpolated(a) ==
    LET start_x == GetOr(a, "start_x", 0)
        start_y == GetOr(a, "start_y", 0)
        end_x == GetOr(a, "end_x", 0)
        end_y == GetOr(a, "end_y", 0)
        button == GetOr(a, "button", "left")
    IN  << GetClient,
           Arg(a, "start_x"), Arg(a, "start_y"), Arg(a, "end_x"), Arg(a, "end_y"),
           Remote("mouse_down", <<button, start_x, start_y>>),
           Sleep(DragWait),
           Remote("mouse_move", <<(start_x + end_x) \div 2, (start_y + end_y) \div 2>>),
           Sleep(DragWait),
           Remote("mouse_move", <<end_x, end_y>>),
           Sleep(DragWait),
           Remote("mouse_up", <<button, end_x, end_y>>),
           Return("text", <<"Dragged ", button, " from (", start_x, ", ", start_y,
                            ") to (", end_x, ", ", end_y, ")">>) >>

\* lines 381-395
mouse_drag(a) ==
    LET start_x == GetOr(a, "start_x", 0)
        start_y == GetOr(a, "start_y", 0)
        end_x == GetOr(a, "end_x", 0)
        end_y == GetOr(a, "end_y", 0)
        button == GetOr(a, "button", "left")
    IN  << GetClient,
           Arg(a, "start_x"), Arg(a, "start_y"), Arg(a, "end_x"), Arg(a, "end_y"),
           Remote("mouse_down", <<button, start_x, start_y>>),
           Sleep(DragWait),
           Remote("mouse_move", <<end_x, end_y>>),
           Sleep(DragWait),
           Remote("mouse_up", <<button, end_x, end_y>>),
           Return("text", <<"Dragged ", button, " from (", start_x, ", ", start_y,
                            ") to (", end_x, ", ", end_y, ")">>) >>

\* lines 397-401
mouse_scroll(a) ==
    LET amount == GetOr(a, "amount", 0)
        direction == IF amount > 0 THEN "up" ELSE "down"
    IN  << GetClient, Arg(a, "amount"),
           Remote("mouse_scroll", <<amount>>),
           Return("text", <<"Scrolled ", direction, " by ", Abs(amount)>>) >>

\* capture_screen returning the encoded frame as a text item
capture_screen_as_text(a) ==
    << GetClient, Capture, Log("capture"), Encode, Return("text", <<"base64">>) >>

\* lines 403-424
capture_screen(a) == << GetClient, Capture, Log("capture"), Encode, Return("image", <<>>) >>

\* lines 426-430
get_screen_text(a) == << GetClient, Capture, Log("ocr"), Ocr, Return("ocr", <<>>) >>

\* execute_and_read waiting the fixed 100 ms a second time instead of wait_seconds
execute_and_read_fixed_wait(a) ==
    LET command == GetOr(a, "command", <<>>)
    IN  << GetClient, Arg(a, "command"),
           Remote("type_text", <<command>>),
           Sleep(TypeWait),
           Remote("send_key", <<"enter">>),
           Sleep(TypeWait),
           Capture, Log("exec"), Ocr, Return("ocr", <<>>) >>

\* execute_and_read awaiting once more between the frame fetch and the recognition
execute_and_read_ocr_awaited(a) ==
    LET command == GetOr(a, "command", <<>>)
        wait_ms == GetOr(a, "wait_seconds", DefaultWait)
    IN  << GetClient, Arg(a, "command"),
           Remote("type_text", <<command>>),
           Sleep(TypeWait),
           Remote("send_key", <<"enter">>),
           Sleep(wait_ms),
           Capture, Log("exec"), Sleep(0), Ocr, Return("ocr", <<>>) >>

\* lines 432-444
execute_and_read(a) ==
    LET command == GetOr(a, "command", <<>>)
        wait_ms == GetOr(a, "wait_seconds", DefaultWait)
    IN  << GetClient, Arg(a, "command"),
           Remote("type_text", <<command>>),
           Sleep(TypeWait),
           Remote("send_key", <<"enter">>),
           Sleep(wait_ms),
           Capture, Log("exec"), Ocr, Return("ocr", <<>>) >>

\* lines 446-451
get_device_info(a) ==
    << GetClient, Remote("get_device_info", <<>>), Return("device_info", <<>>) >>

\* lines 453-461
set_capture_resolution(a) ==
    LET width == GetOr(a, "width", 0)
        height == GetOr(a, "height", 0)
    IN  << GetClient, Arg(a, "width"), Arg(a, "height"),
           Remote("set_capture_resolution", <<width, height>>),
           Return("resolution", <<width, height>>) >>

\* list_capture_devices serializing the response without the test for no devices
list_capture_devices_unchecked(a) ==
    << GetClient, Remote("list_capture_devices", <<>>), Return("device_info", <<>>) >>

\* lines 463-471
list_capture_devices(a) ==
    << GetClient, Remote("list_capture_devices", <<>>), Return("devices", <<>>) >>

\* lines 473-480
set_capture_device(a) ==
    LET device == GetOr(a, "device", 0)
    IN  << GetClient, Arg(a, "device"),
           Remote("set_capture_device", <<device>>),
           Return("device", <<device>>) >>

\* lines 482-483
unknown_tool(name) == << GetClient, Return("text", <<"Unknown tool: ", name>>) >>

\* the if/elif chain of call_tool
Program(name, a) ==
    CASE name = "type_text" -> type_text(a)
      [] name = "send_key" -> send_key(a)
      [] name = "send_key_sequence" -> send_key_sequence(a)
      [] name = "mouse_move" -> mouse_move(a)
      [] name = "mouse_click" -> mouse_click(a)
      [] name = "mouse_drag" -> mouse_drag(a)
      [] name = "mouse_scroll" -> mouse_scroll(a)
      [] name = "capture_screen" -> capture_screen(a)
      [] name = "get_screen_text" -> get_screen_text(a)
      [] name = "execute_and_read" -> execute_and_read(a)
      [] name = "get_device_info" -> get_device_info(a)
      [] name = "set_capture_resolution" -> set_capture_resolution(a)
      [] name = "list_capture_devices" -> list_capture_devices(a)
      [] name = "set_capture_device" -> set_capture_device(a)
      [] OTHER -> unknown_tool(name)

----------------------------------------------------------------------------
(* Executing the statements.  m is the state a segment works on: the       *)
(* globals, the events of the invocation so far (ev) and the locals        *)
(* result, image, text and buffer.  env is what the peers do.              *)

NoImage == [w |-> 0, h |-> 0, size |-> <<>>, half |-> 0]

NoEncoding == Encoding(0, 0, 0)

Ok == "ok"

Next_(m) == [status |-> "next", m |-> m, exc |-> NoExc]
\* a raise that releases a pressed mouse button on its way out
Raise_releasing(m, exc) ==
    LET IsDown(e) == e[1] = "remote" /\ e[2] = "mouse_down"
        downs == SelectSeq(m.ev, IsDown)
    IN  [status |-> "raise",
         m |-> IF downs = <<>> THEN m
               ELSE [m EXCEPT !.ev = Append(@, <<"remote", "mouse_up", downs[1][3], m.client>>)],
         exc |-> exc]

Raise(m, exc) == [status |-> "raise", m |-> m, exc |-> exc]

\* get_client making a new handle whenever the stored one is not connected
get_client_reconnecting(m, env) ==
    IF m.client = "Connected" THEN Next_(m)
    ELSE LET m1 == [m EXCEPT !.made.clients = @ + 1, !.made.connects = @ + 1,
                             !.ev = Append(@, <<"connect">>)]
         IN  IF env.connect = Ok
             THEN Next_([m1 EXCEPT !.client = "Connected"])
             ELSE Raise([m1 EXCEPT !.client = "Unconnected"],
                        Exc(env.connect, "connect failed"))

\* lines 38-44: the handle is stored before connect() is called on it
get_client(m, env) ==
    IF m.client # None THEN Next_(m)
    ELSE LET m1 == [m EXCEPT !.made.clients = @ + 1, !.made.connects = @ + 1,
                             !.ev = Append(@, <<"connect">>)]
         IN  IF env.connect = Ok
             THEN Next_([m1 EXCEPT !.client = "Connected"])
             ELSE Raise([m1 EXCEPT !.client = "Unconnected"],
                        Exc(env.connect, "connect failed"))

\* lines 47-51
get_ocr(m) ==
    IF m.ocr # None THEN m
    ELSE [m EXCEPT !.ocr = "Created", !.made.ocrs = @ + 1]

\* a call of a KvmClient method that is made a second time when it fails
remote_call_retrying(m, call, args, env) ==
    LET m1 == [m EXCEPT !.ev = Append(@, <<"remote", call, args, m.client>>)]
    IN  IF env.remote = Ok
        THEN Next_([m1 EXCEPT !.result = env.resp])
        ELSE Raise([m1 EXCEPT !.ev = Append(@, <<"remote", call, args, m.client>>)],
                   Exc("KvmClientError", env.remote))

\* a call of a KvmClient method: the event names the call, its arguments and
\* the state of the handle it goes through
remote_call(m, call, args, env) ==
    LET m1 == [m EXCEPT !.ev = Append(@, <<"remote", call, args, m.client>>)]
    IN  IF env.remote = Ok
        THEN Next_([m1 EXCEPT !.result = env.resp])
        ELSE Raise(m1, Exc("KvmClientError", env.remote))

\* lines 74-77
_capture_image(m, env) ==
    LET c == get_client(m, env)
    IN  IF c.status = "raise" THEN c
        ELSE LET r == remote_call(c.m, "capture_frame_jpeg", <<CaptureQuality>>, env)
             IN  IF r.status = "raise" THEN r
                 ELSE IF env.decode # Ok
                      THEN Raise(r.m, Exc("UnidentifiedImageError", env.decode))
                      ELSE Next_([r.m EXCEPT !.image = env.frame,
                                             !.ev = Append(@, <<"decode">>)])

\* _save_capture_log without the test of log_dir
_save_capture_log_unconfigured(m, suffix, env) ==
    CASE env.log = "makedirs failed" ->
            [m EXCEPT !.ev = Append(@, <<"log", suffix, env.log>>)]
      [] env.log = "save failed" ->
            [m EXCEPT !.disk.dir = TRUE, !.ev = Append(@, <<"log", suffix, env.log>>)]
      [] OTHER ->
            [m EXCEPT !.disk.dir = TRUE,
                      !.disk.files = @ \cup {<<m.clock, suffix>>},
                      !.ev = Append(@, <<"log", suffix, "saved">>)]

\* lines 54-71: never raises
_save_capture_log(m, suffix, env) ==
    IF m.log_dir = None THEN m
    ELSE CASE env.log = "makedirs failed" ->
                [m EXCEPT !.ev = Append(@, <<"log", suffix, env.log>>)]
           [] env.log = "save failed" ->
                [m EXCEPT !.disk.dir = TRUE, !.ev = Append(@, <<"log", suffix, env.log>>)]
           [] OTHER ->
                [m EXCEPT !.disk.dir = TRUE,
                          !.disk.files = @ \cup {<<m.clock, suffix>>},
                          !.ev = Append(@, <<"log", suffix, "saved">>)]

\* lines 406-419: the saves of the adaptive encoder
encode(m, env) ==
    IF env.encode # Ok
    THEN Raise([m EXCEPT !.ev = Append(@, <<"save", Encoding(m.image.w, m.image.h,
                                                              InitialQuality)>>)],
               Exc("OSError", env.encode))
    ELSE LET saves == AdaptiveEncode(m.image)
         IN  Next_([m EXCEPT !.ev = @ \o [i \in 1..Len(saves) |-> <<"save", saves[i]>>],
                             !.buffer = Last(saves)])

\* get_ocr().extract_text(image): preprocess_image runs outside the try
recognize(m, env) ==
    LET m1 == get_ocr(m)
    IN  IF env.preprocess # Ok
        THEN Raise(m1, Exc("ZeroDivisionError", env.preprocess))
        ELSE LET r == extract_text(env.engine, env.raw)
                 m2 == [m1 EXCEPT !.ev = @ \o <<<<"preprocess">>, <<"recognize", r.reason>>>>]
             IN  IF r.raised
                 THEN Raise(m2, Exc("TesseractError", r.reason))
                 ELSE Next_([m2 EXCEPT !.text = r.text])

\* the value of a return statement
ReturnValue(ins, m) ==
    CASE ins.kind = "text" -> TextContent(ins.text)
      [] ins.kind = "ocr" -> TextContent(m.text)
      [] ins.kind = "image" -> ImageContent(<<"base64", m.buffer>>)
      [] ins.kind = "device_info" -> TextContent(<<"json", m.result>>)
      [] ins.kind = "resolution" ->
            LET cap_info == GetOr(m.result, "info", <<>>)
            IN  TextContent(<<"Resolution set: ", Opt(cap_info, "width"), "x",
                              Opt(cap_info, "height"), " (requested ", ins.text[1], "x",
                              ins.text[2], ")">>)
      [] ins.kind = "devices" ->
            LET devices == GetOr(m.result, "devices", <<>>)
            IN  IF devices = <<>> THEN TextContent(<<"No capture devices found.">>)
                ELSE TextContent(<<"json", devices>>)
      [] ins.kind = "device" ->
            LET cap_info == GetOr(m.result, "info", <<>>)
            IN  TextContent(<<"Switched to device ", ins.text[1], ": ",
                              Opt(cap_info, "width"), "x", Opt(cap_info, "height"), " (",
                              Opt(cap_info, "backend"), ")">>)

\* Step with a _save_capture_log that has no try/except
Step_log_unguarded(ins, m, env) ==
    CASE ins.op = "get_client" -> get_client(m, env)
      [] ins.op = "arg" ->
            IF ins.present THEN Next_(m) ELSE Raise(m, Exc("KeyError", ins.key))
      [] ins.op = "remote" -> remote_call(m, ins.call, ins.args, env)
      [] ins.op = "sleep" ->
            [status |-> "suspend", m |-> [m EXCEPT !.ev = Append(@, <<"sleep", ins.ms>>)],
             exc |-> NoExc]
      [] ins.op = "capture" -> _capture_image(m, env)
      [] ins.op = "log" ->
            IF m.log_dir # None /\ env.log # Ok
            THEN Raise(_save_capture_log(m, ins.suffix, env), Exc("OSError", env.log))
            ELSE Next_(_save_capture_log(m, ins.suffix, env))
      [] ins.op = "encode" -> encode(m, env)
      [] ins.op = "ocr" -> recognize(m, env)
      [] ins.op = "return" -> [status |-> "return", m |-> m, exc |-> NoExc]

\* one statement
Step(ins, m, env) ==
    CASE ins.op = "get_client" -> get_client(m, env)
      [] ins.op = "arg" ->
            IF ins.present THEN Next_(m) ELSE Raise(m, Exc("KeyError", ins.key))
      [] ins.op = "remote" -> remote_call(m, ins.call, ins.args, env)
      [] ins.op = "sleep" ->
            [status |-> "suspend", m |-> [m EXCEPT !.ev = Append(@, <<"sleep", ins.ms>>)],
             exc |-> NoExc]
      [] ins.op = "capture" -> _capture_image(m, env)
      [] ins.op = "log" -> Next_(_save_capture_log(m, ins.suffix, env))
      [] ins.op = "encode" -> encode(m, env)
      [] ins.op = "ocr" -> recognize(m, env)
      [] ins.op = "return" -> [status |-> "return", m |-> m, exc |-> NoExc]

\* only the first except clause of call_tool
call_tool_except_kvm_only(exc) ==
    IF exc.cls = "KvmClientError"
    THEN [status |-> "returned", result |-> <<TextContent(<<"Error: ", exc.msg>>)>>]
    ELSE [status |-> "raised", result |-> <<>>]

\* lines 485-490: except KvmClientError / except Exception
call_tool_except(exc) ==
    IF exc.cls = "KvmClientError"
    THEN [status |-> "returned", result |-> <<TextContent(<<"Error: ", exc.msg>>)>>]
    ELSE IF exc.cls \in ExceptionClasses
         THEN [status |-> "returned", result |-> <<TextContent(<<"Error: ", exc.msg>>)>>]
         ELSE [status |-> "raised", result |-> <<>>]

RECURSIVE Run(_, _, _, _)
\* the statements from pc on, up to the next await, return or raise
Run(prog, pc, m, env) ==
    LET r == Step(prog[pc], m, env)
    IN  CASE r.status = "next" -> Run(prog, pc + 1, r.m, env)
          [] r.status = "suspend" ->
                [status |-> "suspended", pc |-> pc + 1, m |-> r.m, exc |-> NoExc,
                 result |-> <<>>]
          [] r.status = "return" ->
                [status |-> "returned", pc |-> pc, m |-> r.m, exc |-> NoExc,
                 result |-> <<ReturnValue(prog[pc], r.m)>>]
          [] r.status = "raise" ->
                LET h == call_tool_except(r.exc)
                IN  [status |-> h.status, pc |-> pc, m |-> r.m, exc |-> r.exc,
                     result |-> h.result]

----------------------------------------------------------------------------
(* The inputs: argument mappings of the tools and behaviours of the peers. *)

Texts == {<<"l", "s">>, <<"p", "w", "d">>}
CharDelays == {5}
Keys == {"a", "enter"}
ModifierLists == {<<"ctrl">>, <<"ctrl", "shift">>}
KeySteps == {<<>>, <<[key |-> "a"]>>, <<[key |-> "b"], [key |-> "a"]>>}
StepDelays == {20}
Points == {<<1, 2>>, <<3, 4>>}
Buttons == {"right"}
Amounts == {-2, 3}
Waits == {0, 2000}
Resolutions == {<<640, 480>>}
Devices == {0, 1}
UnknownNames == {"reboot"}

\* a set of argument mappings, and each of them with one of its keys left out
WithMissing(full) == full \cup UNION {{Without(a, k) : k \in DOMAIN a} : a \in full}

TypeTextArgs == WithMissing({[text |-> t, char_delay_ms |-> d] : t \in Texts, d \in CharDelays})
SendKeyArgs == WithMissing({[key |-> k, modifiers |-> ms] : k \in Keys, ms \in ModifierLists})
KeySequenceArgs ==
    WithMissing({[steps |-> st, default_delay_ms |-> d] : st \in KeySteps, d \in StepDelays})
MouseMoveArgs ==
    WithMissing({[x |-> p[1], y |-> p[2], relative |-> r] : p \in Points, r \in BOOLEAN})
MouseClickArgs ==
    WithMissing({[button |-> b, x |-> p[1], y |-> p[2]] : b \in Buttons, p \in Points})
    \cup {<<>>}
MouseDragArgs ==
    WithMissing({[start_x |-> p[1], start_y |-> p[2], end_x |-> q[1], end_y |-> q[2],
                  button |-> b] : p \in Points, q \in Points, b \in Buttons})
MouseScrollArgs == WithMissing({[amount |-> n] : n \in Amounts})
ExecuteArgs == WithMissing({[command |-> c, wait_seconds |-> w] : c \in Texts, w \in Waits})
ResolutionArgs == WithMissing({[width |-> r[1], height |-> r[2]] : r \in Resolutions})
DeviceArgs == WithMissing({[device |-> d] : d \in Devices})
NoArgs == {<<>>}

ConnectFailures == {"KvmClientError", "OSError"}
RemoteFailures == {"device not found"}
DecodeFailures == {"cannot identify image file"}
EncodeFailures == {"encoder error"}
PreprocessFailures == {"division by zero"}
LogOutcomes == {Ok, "makedirs failed", "save failed"}
Reasons == {"tesseract is not installed", "timeout"}
RawTexts == {<<"$", " ", "|", "s", " ", NL, NL, NL, NL, "a", " ", NL>>, <<NL>>}

Ack == [status |-> "ok"]
InfoResponses == {[serial |-> "open", capture |-> "open"]}
CaptureInfo == [width |-> 640, height |-> 480, backend |-> "v4l2"]
ConfigResponses == {[info |-> CaptureInfo], Ack}
DeviceListResponses ==
    {[devices |-> <<>>], Ack, [devices |-> <<[index |-> 0, name |-> "cam"]>>]}

\* the frames of the given sizes, with every way their encodings can come out
Frames(dims, sizes) ==
    {[w |-> d[1], h |-> d[2], size |-> f, half |-> k] :
        d \in dims, f \in [Ladder -> sizes], k \in sizes}

\* for the dispatcher: one size of frame, its encodings not growing as quality drops
DispatchFrames ==
    {f \in Frames({<<4, 2>>}, {SizeCeiling, SizeCeiling + 1}) :
        \A p, q \in Ladder : p < q => f.size[p] <= f.size[q]}

\* for the text tools the sizes of the encodings play no part
TextFrames ==
    {f \in DispatchFrames : \A q \in Ladder : f.size[q] = SizeCeiling /\ f.half = SizeCeiling}

EnvOk ==
    [connect |-> Ok, remote |-> Ok, resp |-> Ack, decode |-> Ok, frame |-> NoImage,
     log |-> Ok, encode |-> Ok, preprocess |-> Ok, engine |-> EngineOk, raw |-> <<>>]

\* a fault is chosen only for a statement that is reached
ConnectEnvs == {[EnvOk EXCEPT !.connect = c] : c \in ConnectFailures}
RemoteFailEnvs == {[EnvOk EXCEPT !.remote = r] : r \in RemoteFailures}
RemoteEnvs(resps) == RemoteFailEnvs \cup {[EnvOk EXCEPT !.resp = r] : r \in resps}
DecodeFailEnvs == {[EnvOk EXCEPT !.decode = d] : d \in DecodeFailures}
ImageEnvs ==
    RemoteFailEnvs \cup DecodeFailEnvs
    \cup {[EnvOk EXCEPT !.frame = f, !.log = l, !.encode = x] :
            f \in DispatchFrames, l \in LogOutcomes, x \in {Ok} \cup EncodeFailures}
TextEnvs ==
    RemoteFailEnvs \cup DecodeFailEnvs
    \cup {[EnvOk EXCEPT !.frame = f, !.log = l, !.preprocess = x] :
            f \in TextFrames, l \in LogOutcomes, x \in PreprocessFailures}
    \cup {[EnvOk EXCEPT !.frame = f, !.log = l, !.engine = r] :
            f \in TextFrames, l \in LogOutcomes, r \in Reasons}
    \cup {[EnvOk EXCEPT !.frame = f, !.log = l, !.raw = t] :
            f \in TextFrames, l \in LogOutcomes, t \in RawTexts}

----------------------------------------------------------------------------
(* The dispatcher as a state machine.                                      *)

Idle == [name |-> "-", args |-> <<>>, pc |-> 0, ev |-> <<>>]

NoOut ==
    [id |-> 0, name |-> "-", args |-> <<>>, status |-> "-", result |-> <<>>, ev |-> <<>>,
     exc |-> NoExc, env |-> EnvOk]

\* the state a segment of invocation i starts from
Machine(i) ==
    [client |-> client, ocr |-> ocr, made |-> made, log_dir |-> capture_log_dir,
     disk |-> disk, clock |-> clock, ev |-> inv[i].ev,
     result |-> <<>>, image |-> NoImage, text |-> <<>>, buffer |-> NoEncoding]

\* the state after a segment of invocation i ended as r says
Commit(i, name, a, r, env) ==
    /\ client' = r.m.client
    /\ ocr' = r.m.ocr
    /\ made' = r.m.made
    /\ disk' = r.m.disk
    /\ IF r.status = "suspended"
       THEN /\ inv' = [inv EXCEPT ![i] = [name |-> name, args |-> a, pc |-> r.pc,
                                           ev |-> r.m.ev]]
            /\ out' = out
       ELSE /\ inv' = [inv EXCEPT ![i] = Idle]
            /\ out' = [id |-> i, name |-> name, args |-> a, status |-> r.status,
                       result |-> r.result, ev |-> r.m.ev, exc |-> r.exc, env |-> env]
    /\ UNCHANGED <<capture_log_dir, clock, encoder_vars, text_vars, image_vars>>

\* call_tool(name, arguments) is invoked and runs up to its first await or its end
Call(i, name, argsets, envs) ==
    /\ out = NoOut
    /\ inv[i] = Idle
    /\ \E a \in argsets :
         \E env \in envs \cup (IF client = None THEN ConnectEnvs ELSE {}) :
            Commit(i, name, a, Run(Program(name, a), 1, Machine(i), env), env)

call_type_text ==
    \E i \in DOMAIN inv : Call(i, "type_text", TypeTextArgs, RemoteEnvs({Ack}))
call_send_key ==
    \E i \in DOMAIN inv : Call(i, "send_key", SendKeyArgs, RemoteEnvs({Ack}))
call_send_key_sequence ==
    \E i \in DOMAIN inv : Call(i, "send_key_sequence", KeySequenceArgs, RemoteEnvs({Ack}))
call_mouse_move ==
    \E i \in DOMAIN inv : Call(i, "mouse_move", MouseMoveArgs, RemoteEnvs({Ack}))
call_mouse_click ==
    \E i \in DOMAIN inv : Call(i, "mouse_click", MouseClickArgs, RemoteEnvs({Ack}))
call_mouse_drag ==
    \E i \in DOMAIN inv : Call(i, "mouse_drag", MouseDragArgs, RemoteEnvs({Ack}))
call_mouse_scroll ==
    \E i \in DOMAIN inv : Call(i, "mouse_scroll", MouseScrollArgs, RemoteEnvs({Ack}))
call_capture_screen ==
    \E i \in DOMAIN inv : Call(i, "capture_screen", NoArgs, ImageEnvs)
call_get_screen_text ==
    \E i \in DOMAIN inv : Call(i, "get_screen_text", NoArgs, TextEnvs)
call_execute_and_read ==
    \E i \in DOMAIN inv : Call(i, "execute_and_read", ExecuteArgs, RemoteEnvs({Ack}))
call_get_device_info ==
    \E i \in DOMAIN inv : Call(i, "get_device_info", NoArgs, RemoteEnvs(InfoResponses))
call_set_capture_resolution ==
    \E i \in DOMAIN inv :
        Call(i, "set_capture_resolution", ResolutionArgs, RemoteEnvs(ConfigResponses))
call_list_capture_devices ==
    \E i \in DOMAIN inv :
        Call(i, "list_capture_devices", NoArgs, RemoteEnvs(DeviceListResponses))
call_set_capture_device ==
    \E i \in DOMAIN inv : Call(i, "set_capture_device", DeviceArgs, RemoteEnvs(ConfigResponses))
call_unknown ==
    \E i \in DOMAIN inv : \E name \in UnknownNames : Call(i, name, NoArgs, {EnvOk})

\* an await asyncio.sleep(...) of invocation i ends and it runs on
Resume(i) ==
    /\ out = NoOut
    /\ inv[i] # Idle
    /\ \E env \in RemoteEnvs({Ack}) \cup TextEnvs :
          Commit(i, inv[i].name, inv[i].args,
                 Run(Program(inv[i].name, inv[i].args), inv[i].pc, Machine(i), env), env)

resume == \E i \in DOMAIN inv : Resume(i)

\* the caller takes the result
Deliver ==
    /\ out # NoOut
    /\ out' = NoOut
    /\ UNCHANGED <<client, ocr, made, capture_log_dir, disk, clock, inv,
                   encoder_vars, text_vars, image_vars>>

NoDisk == [dir |-> FALSE, files |-> {}]

\* config.py lines 7-13
_default_capture_log_dir == "share/mcp-serial-hid-kvm/captures"

\* config.py lines 27-34; raw is os.environ.get("MCP_CAPTURE_LOG_DIR"), <<>> when unset
config_capture_log_dir(raw) ==
    IF raw = <<>> THEN _default_capture_log_dir
    ELSE IF raw[1] = "" THEN None
    ELSE raw[1]

\* MCP_CAPTURE_LOG_DIR: unset, empty, a directory
LogDirSettings == {<<>>, <<"">>, <<"captures">>}

LogDirs == {config_capture_log_dir(raw) : raw \in LogDirSettings}

InitDispatcher ==
    /\ client = None
    /\ ocr = None
    /\ made = [clients |-> 0, connects |-> 0, ocrs |-> 0]
    /\ capture_log_dir \in LogDirs
    /\ disk \in {[dir |-> d, files |-> {}] : d \in BOOLEAN}
    /\ clock = 0
    /\ inv = [i \in {1} |-> Idle]
    /\ out = NoOut

InitEncoder == frame_in = NoImage /\ enc_out = <<>>
InitText == text_in = <<>> /\ text_out = <<>>
InitImage == img_in = <<>> /\ img_out = <<>>

Init == InitDispatcher /\ InitEncoder /\ InitText /\ InitImage

Next ==
    \/ call_type_text
    \/ call_send_key
    \/ call_send_key_sequence
    \/ call_mouse_move
    \/ call_mouse_click
    \/ call_mouse_drag
    \/ call_mouse_scroll
    \/ call_capture_screen
    \/ call_get_screen_text
    \/ call_execute_and_read
    \/ call_get_device_info
    \/ call_set_capture_resolution
    \/ call_list_capture_devices
    \/ call_set_capture_device
    \/ call_unknown
    \/ resume
    \/ Deliver

Spec == Init /\ [][Next]_vars

----------------------------------------------------------------------------
(* The adaptive encoder alone, on every frame of the bounds.               *)

MaxDim == 3

\* a frame one pixel wide or high cannot encode to more than the ceiling
EncoderDims == {<<w, h>> : w, h \in 2..MaxDim}
EncoderSizes == {SizeCeiling - 1, SizeCeiling, SizeCeiling + 1}
EncoderFrames == Frames(EncoderDims, EncoderSizes)

InitIdle ==
    /\ client = None
    /\ ocr = None
    /\ made = [clients |-> 0, connects |-> 0, ocrs |-> 0]
    /\ capture_log_dir = None
    /\ disk = NoDisk
    /\ clock = 0
    /\ inv = [i \in {1} |-> Idle]
    /\ out = NoOut

EncodeFrame ==
    /\ enc_out = <<>>
    /\ enc_out' = AdaptiveEncode(frame_in)
    /\ UNCHANGED <<dispatcher_vars, frame_in, text_vars, image_vars>>

InitEnc == InitIdle /\ frame_in \in EncoderFrames /\ enc_out = <<>> /\ InitText /\ InitImage

SpecEnc == InitEnc /\ [][EncodeFrame]_vars

----------------------------------------------------------------------------
(* _postprocess_text alone, on every text of the bounds.                   *)

MaxTextLen == 9

BlankAlphabet == {"a", " ", NL}

TextsUpTo(alphabet, n) == UNION {[1..k -> alphabet] : k \in 0..n}

PostprocessText ==
    /\ text_out = <<>>
    /\ text_out' = <<_postprocess_text(text_in)>>
    /\ UNCHANGED <<dispatcher_vars, encoder_vars, text_in, image_vars>>

InitPost ==
    /\ InitIdle /\ InitEncoder /\ InitImage
    /\ text_in \in TextsUpTo(BlankAlphabet, MaxTextLen)
    /\ text_out = <<>>

SpecText == InitPost /\ [][PostprocessText]_vars

----------------------------------------------------------------------------
(* The claims about the dispatcher, checked under Spec.                    *)

Finished == out # NoOut

\* the events of the given kinds, in order
EventsOf(ev, kinds) == LET Keep(e) == e[1] \in kinds IN SelectSeq(ev, Keep)

\* an event without what the claims do not speak of: a remote call is its name
\* and arguments, a wait its length, anything else its kind
Shape(e) ==
    IF e[1] = "remote" THEN <<e[1], e[2], e[3]>>
    ELSE IF e[1] = "sleep" THEN e
    ELSE <<e[1]>>

Shapes(ev) == [k \in 1..Len(ev) |-> Shape(ev[k])]

RemoteCalls(ev) == EventsOf(ev, {"remote"})

\* the reasons the recognition engine failed with during the invocation
EngineFailures(ev) ==
    {ev[k][2] : k \in {j \in 1..Len(ev) : ev[j][1] = "recognize" /\ ev[j][2] # EngineOk}}

Contains(text, token) == \E k \in 1..Len(text) : text[k] = token

\* C1: every invocation of call_tool, whatever the tool name, the arguments and
\* the failures of the peers, ends by returning one result and never by an
\* exception leaving call_tool; when a statement raised, the result is the text
\* "Error: " followed by the message of the error, and when the recognition
\* engine failed it is a text naming the reason.
C1_AlwaysReturns ==
    Finished =>
        /\ out.status = "returned"
        /\ Len(out.result) = 1
        /\ out.exc # NoExc =>
              /\ out.result[1].type = "text"
              /\ out.result[1].text = <<"Error: ", out.exc.msg>>
        /\ \A r \in EngineFailures(out.ev) :
              /\ out.result[1].type = "text"
              /\ Contains(out.result[1].text, r)

\* C1 witness: a mapping without its required key, after a connect() that failed
\* with an error that is no KvmClientError in an earlier invocation
C1_Witness ==
    /\ Finished
    /\ out.exc.cls = "KeyError"
    /\ client = "Unconnected"
    /\ out.status = "returned"

\* C2: a mouse_drag that does not fail calls mouse_down(button, start), waits,
\* calls mouse_move(end), waits, calls mouse_up(button, end), in this order and
\* nothing else; the button is the one given (left when none is), and the
\* result "Dragged ..." is returned after the last of them.
C2_DragOrder ==
    (Finished /\ out.name = "mouse_drag" /\ out.exc = NoExc) =>
        LET a == out.args
            button == GetOr(a, "button", "left")
        IN  /\ Shapes(EventsOf(out.ev, {"remote", "sleep"})) =
                  << <<"remote", "mouse_down", <<button, a.start_x, a.start_y>>>>,
                     <<"sleep", DragWait>>,
                     <<"remote", "mouse_move", <<a.end_x, a.end_y>>>>,
                     <<"sleep", DragWait>>,
                     <<"remote", "mouse_up", <<button, a.end_x, a.end_y>>>> >>
            /\ out.status = "returned"
            /\ out.result[1].type = "text"
            /\ out.result[1].text[1] = "Dragged "

\* C2 witness: a drag between two different points with no button given
C2_Witness ==
    /\ Finished /\ out.name = "mouse_drag" /\ out.exc = NoExc
    /\ "button" \notin DOMAIN out.args
    /\ <<out.args.start_x, out.args.start_y>> # <<out.args.end_x, out.args.end_y>>

\* C3 as stated: every mouse_drag issues exactly 4 remote calls.
C3_FourRemoteCalls ==
    (Finished /\ out.name = "mouse_drag") => Len(RemoteCalls(out.ev)) = 4

\* C3 as amended: a mouse_drag that does not fail issues exactly 3 remote calls
\* (mouse_down, mouse_move, mouse_up), and no mouse_drag issues more than 3.
C3_ThreeRemoteCalls ==
    (Finished /\ out.name = "mouse_drag") =>
        /\ Len(RemoteCalls(out.ev)) <= 3
        /\ out.exc = NoExc => Len(RemoteCalls(out.ev)) = 3

\* C3 witness: a drag that succeeded, with its three calls
C3_Witness ==
    /\ Finished /\ out.name = "mouse_drag" /\ out.exc = NoExc
    /\ Len(RemoteCalls(out.ev)) = 3
    /\ out.result[1].text[1] = "Dragged "

\* C4: an execute_and_read that does not fail calls type_text(command), waits
\* 100 ms, calls send_key("enter"), waits wait_seconds (1.0 s when absent),
\* fetches the frame, logs it when a log directory is configured, runs the
\* recognition and returns its text; it issues no other remote call.
C4_ExecuteOrder ==
    (Finished /\ out.name = "execute_and_read" /\ out.exc = NoExc) =>
        LET a == out.args
            wait == IF "wait_seconds" \in DOMAIN a THEN a.wait_seconds ELSE 1000
        IN  /\ Shapes(EventsOf(out.ev, {"remote", "sleep", "log", "recognize"})) =
                  << <<"remote", "type_text", <<a.command>>>>,
                     <<"sleep", 100>>,
                     <<"remote", "send_key", <<"enter">>>>,
                     <<"sleep", wait>>,
                     <<"remote", "capture_frame_jpeg", <<CaptureQuality>>>> >>
                  \o (IF capture_log_dir # None THEN <<<<"log">>>> ELSE <<>>)
                  \o <<<<"recognize">>>>
            /\ out.status = "returned"
            /\ out.result[1].type = "text"
            /\ out.result[1].text = extract_text(out.env.engine, out.env.raw).text

\* C4 witness: a command run with wait_seconds = 2 and read back
C4_Witness ==
    /\ Finished /\ out.name = "execute_and_read" /\ out.exc = NoExc
    /\ "wait_seconds" \in DOMAIN out.args
    /\ out.args.wait_seconds = 2000
    /\ out.env.engine = EngineOk
    /\ capture_log_dir # None

\* C10: when the recognition engine fails with reason r, extract_text raises
\* nothing and answers a text that contains r, and get_screen_text and
\* execute_and_read return that text.
C10_EngineFailureIsText ==
    (Finished /\ out.name \in {"get_screen_text", "execute_and_read"}) =>
        \A r \in EngineFailures(out.ev) :
            /\ out.exc = NoExc
            /\ out.status = "returned"
            /\ out.result[1].type = "text"
            /\ Contains(out.result[1].text, r)
            /\ out.result[1].text = extract_text(r, <<>>).text

\* C10 witness: get_screen_text with the engine timing out
C10_Witness ==
    /\ Finished /\ out.name = "get_screen_text"
    /\ "timeout" \in EngineFailures(out.ev)
    /\ out.status = "returned"

----------------------------------------------------------------------------
(* The claims about the adaptive encoder, checked under SpecEnc.           *)

Encoded == enc_out # <<>>

IsFullSize(e) == e.w = frame_in.w /\ e.h = frame_in.h

FullSaves == LET Full(e) == IsFullSize(e) IN SelectSeq(enc_out, Full)

HalfSaves == LET Half(e) == ~IsFullSize(e) IN SelectSeq(enc_out, Half)

Fits(q) == frame_in.size[q] <= 10000000

HalfEncoding == [w |-> frame_in.w \div 2, h |-> frame_in.h \div 2, quality |-> 60]

\* C5 as stated: the encoder ends after at most 5 full-size encodings and at
\* most 1 half-size encoding.
C5_FiveQualityAttempts ==
    Encoded => Len(FullSaves) <= 5 /\ Len(HalfSaves) <= 1

\* C5 as amended: the encoder ends after at most 6 full-size encodings (at the
\* qualities 85, 70, 55, 40, 25, 10) and at most 1 half-size encoding.
C5_SixQualityAttempts ==
    Encoded =>
        /\ Len(FullSaves) <= 6
        /\ Len(HalfSaves) <= 1
        /\ \A k \in 1..Len(FullSaves) : FullSaves[k].quality = 85 - 15 * (k - 1)

\* C5 witness: a frame no encoding of which fits, encoded seven times
C5_Witness ==
    /\ Encoded
    /\ Len(FullSaves) = 6
    /\ Len(HalfSaves) = 1
    /\ frame_in.half > 10000000

\* C6 as stated: the result is at most 10,000,000 bytes whenever a full-size
\* encoding at one of the qualities 85, 70, 55, 40, 25 fits; in every other
\* case it is the encoding of the half-size frame at quality 60.
C6_FitsFromQuality20 ==
    Encoded =>
        IF \E q \in Ladder : q >= 20 /\ Fits(q)
        THEN SizeOf(frame_in, Last(enc_out)) <= 10000000
        ELSE Last(enc_out) = HalfEncoding

\* C6 as amended: the result is at most 10,000,000 bytes whenever a full-size
\* encoding at one of the qualities 85, 70, 55, 40, 25, 10 fits; in every
\* other case it is the encoding of the half-size frame at quality 60,
\* whatever its size.
C6_FitsFromQuality10 ==
    Encoded =>
        IF \E q \in {85, 70, 55, 40, 25, 10} : Fits(q)
        THEN SizeOf(frame_in, Last(enc_out)) <= 10000000
        ELSE Last(enc_out) = HalfEncoding

\* C6 witness: only the encoding at quality 10 fits, and it is the result
C6_Witness ==
    /\ Encoded
    /\ Fits(10)
    /\ \A q \in Ladder \ {10} : ~Fits(q)
    /\ frame_in.half > 10000000
    /\ SizeOf(frame_in, Last(enc_out)) <= 10000000

\* C7: when a full-size encoding of the ladder fits, the result is the
\* full-size encoding of the highest quality that fits, and no encoding was
\* made after it; a frame that fits at quality 85 is encoded once.
C7_HighestFittingQuality ==
    Encoded =>
        /\ \A q \in Ladder :
              (Fits(q) /\ \A p \in Ladder : p > q => ~Fits(p)) =>
                  /\ Last(enc_out) = [w |-> frame_in.w, h |-> frame_in.h, quality |-> q]
                  /\ \A k \in 1..(Len(enc_out) - 1) : enc_out[k].quality > q
        /\ Fits(85) => enc_out = <<[w |-> frame_in.w, h |-> frame_in.h, quality |-> 85]>>

\* C7 witness: a frame that fits at 55 and again at 25 but not in between
C7_Witness ==
    /\ Encoded
    /\ ~Fits(85) /\ ~Fits(70) /\ Fits(55) /\ ~Fits(40) /\ Fits(25)
    /\ Last(enc_out).quality = 55
    /\ Len(enc_out) = 3

----------------------------------------------------------------------------
(* The claim about _postprocess_text, checked under SpecText.              *)

Postprocessed == text_out # <<>>

\* the numbers of the lines that are not blank
NonBlank(lines) ==
    LET Keep(i) == lines[i] # <<>> IN SelectSeq([i \in 1..Len(lines) |-> i], Keep)

\* the number of blank lines between each non-blank line and the next one
BlankRuns(lines) ==
    LET nb == NonBlank(lines) IN [k \in 1..(Len(nb) - 1) |-> nb[k + 1] - nb[k] - 1]

\* blank lines are those empty once their trailing whitespace is stripped
BlankRunsIn == BlankRuns(CleanedLines(text_in))

BlankRunsOut == BlankRuns(Split(text_out[1]))

\* C8 as stated: between two non-blank lines a run of n >= 4 blank lines
\* becomes 2 blank lines, and a run of 3 blank lines stays 3.
C8_ThreeBlankLinesKept ==
    Postprocessed =>
        /\ Len(BlankRunsOut) = Len(BlankRunsIn)
        /\ \A k \in 1..Len(BlankRunsIn) :
              /\ BlankRunsIn[k] >= 4 => BlankRunsOut[k] = 2
              /\ BlankRunsIn[k] = 3 => BlankRunsOut[k] = 3

\* C8 as amended: between two non-blank lines a run of n >= 3 blank lines
\* becomes 2 blank lines (a run of 3 too), and a run of at most 2 blank
\* lines is left unchanged.
C8_ThreeBlankLinesCollapsed ==
    Postprocessed =>
        /\ Len(BlankRunsOut) = Len(BlankRunsIn)
        /\ \A k \in 1..Len(BlankRunsIn) :
              BlankRunsOut[k] = IF BlankRunsIn[k] >= 3 THEN 2 ELSE BlankRunsIn[k]

\* C8 witness: five blank lines, one of them of spaces, collapsed to two
C8_Witness ==
    /\ Postprocessed
    /\ text_in = <<"a", NL, NL, " ", NL, NL, NL, NL, "a">>
    /\ text_out[1] = <<"a", NL, NL, NL, "a">>

----------------------------------------------------------------------------
(* ocr.py: TerminalOCR.preprocess_image.  An image is its width, height,   *)
(* mode and samples px[<<x, y>>], 0 <= x < w, 0 <= y < h; the samples of   *)
(* an RGB image are triples, those of an L image numbers 0..255.  The      *)
(* Pillow operations are modelled by the arithmetic Pillow does on 8-bit   *)
(* samples.                                                                *)

Pixels(w, h) == (0..(w - 1)) \X (0..(h - 1))

RECURSIVE SumOver(_, _)
\* the sum of f over the set S
SumOver(f, S) ==
    IF S = {} THEN 0 ELSE LET x == CHOOSE x \in S : TRUE IN f[x] + SumOver(f, S \ {x})

Clip8(v) == IF v <= 0 THEN 0 ELSE IF v >= 255 THEN 255 ELSE v

\* image.convert("L") of an RGB image: the ITU-R 601-2 luma, rounded
ConvertL(img) ==
    [w |-> img.w, h |-> img.h, mode |-> "L",
     px |-> [p \in Pixels(img.w, img.h) |->
                (img.px[p][1] * 19595 + img.px[p][2] * 38470 + img.px[p][3] * 7471 + 32768)
                    \div 65536]]

\* ImageEnhance.Contrast(img).enhance(factor): away from the rounded mean
EnhanceContrast(img, factor) ==
    LET n == img.w * img.h
        mean == (2 * SumOver(img.px, Pixels(img.w, img.h)) + n) \div (2 * n)
    IN  [img EXCEPT !.px = [p \in Pixels(img.w, img.h) |->
                               Clip8(mean + factor * (img.px[p] - mean))]]

\* img.filter(ImageFilter.SHARPEN): the 3x3 kernel (-2 ... 32 ... -2) / 16 on the
\* inner samples, the samples of the border are copied
Sharpen(img) ==
    LET Inner(p) == /\ 0 < p[1] /\ p[1] < img.w - 1
                    /\ 0 < p[2] /\ p[2] < img.h - 1
        Around(p) == {q \in Pixels(img.w, img.h) :
                         /\ q # p
                         /\ q[1] \in (p[1] - 1)..(p[1] + 1)
                         /\ q[2] \in (p[2] - 1)..(p[2] + 1)}
    IN  [img EXCEPT !.px = [p \in Pixels(img.w, img.h) |->
            IF Inner(p)
            THEN Clip8((32 * img.px[p] - 2 * SumOver(img.px, Around(p)) + 8) \div 16)
            ELSE img.px[p]]]

\* lines 40-42: sum(img.getdata()) / (img.width * img.height) < 128 => invert
InvertIfDark(img) ==
    IF SumOver(img.px, Pixels(img.w, img.h)) < 128 * img.w * img.h
    THEN [img EXCEPT !.px = [p \in Pixels(img.w, img.h) |-> 255 - img.px[p]]]
    ELSE img

\* the pipeline with the binarization left out
SkipBinarize(img, threshold) == img

\* lines 44-45: img.point(lambda x: 255 if x > threshold else 0, "L")
Binarize(img, threshold) ==
    [img EXCEPT !.px = [p \in Pixels(img.w, img.h) |->
                           IF img.px[p] > threshold THEN 255 ELSE 0]]

\* the Lanczos kernel sinc(x) sinc(x / 3) at x = q / 4, in units of 1 / 65536
LanczosWeight(q) ==
    CASE q = 1 -> 58331
      [] q = 3 -> 17707
      [] q = 5 -> -8708
      [] q = 7 -> -4443
      [] q = 9 -> 1967
      [] q = 11 -> 482

\* one pass of the resampling that doubles a line of n samples: sample xx of
\* the result is centred at (xx + 0.5) / 2 of the line and is the normalised,
\* rounded and clipped sum of the samples less than 3 away from there
Upscale2(line, n) ==
    [xx \in 0..(2 * n - 1) |->
        LET taps == {p \in 0..(n - 1) : Abs(4 * p - 2 * xx + 1) < 12}
            wt == [p \in taps |-> LanczosWeight(Abs(4 * p - 2 * xx + 1))]
            total == SumOver(wt, taps)
            acc == SumOver([p \in taps |-> wt[p] * line[p]], taps)
        IN  Clip8((2 * acc + total) \div (2 * total))]

\* img.resize(size, Image.Resampling.LANCZOS) for a size that keeps or doubles
\* each side: the horizontal pass, then the vertical pass on its result
ResizeLanczos(img, size) ==
    LET rows == [y \in 0..(img.h - 1) |->
                    IF size[1] = img.w THEN [x \in 0..(img.w - 1) |-> img.px[<<x, y>>]]
                    ELSE Upscale2([x \in 0..(img.w - 1) |-> img.px[<<x, y>>]], img.w)]
        cols == [x \in 0..(size[1] - 1) |->
                    IF size[2] = img.h THEN [y \in 0..(img.h - 1) |-> rows[y][x]]
                    ELSE Upscale2([y \in 0..(img.h - 1) |-> rows[y][x]], img.h)]
    IN  [w |-> size[1], h |-> size[2], mode |-> img.mode,
         px |-> [p \in Pixels(size[1], size[2]) |-> cols[p[1]][p[2]]]]

\* new_size with only the width doubled
new_size_width_only(img) == <<img.w * 2, img.h>>

\* line 47
new_size(img) == <<img.w * 2, img.h * 2>>

ContrastFactor == 2
Threshold == 180

\* lines 31-50; the image before the resize is kept beside the result
preprocess_image(image) ==
    LET gray == ConvertL(image)
        enhanced == EnhanceContrast(gray, ContrastFactor)
        sharp == Sharpen(enhanced)
        bright == InvertIfDark(sharp)
        binary == Binarize(bright, Threshold)
    IN  [binary |-> binary, result |-> ResizeLanczos(binary, new_size(binary))]

(* preprocess_image alone, on every frame of the bounds.                   *)

MaxPixels == 9

\* a terminal screen: black, and green of luma 150
Palette == {<<0, 0, 0>>, <<0, 255, 0>>}

ImageDims == {d \in (1..MaxPixels) \X (1..MaxPixels) : d[1] * d[2] <= MaxPixels}

RGBFrames ==
    UNION {{[w |-> d[1], h |-> d[2], mode |-> "RGB", px |-> f] :
              f \in [Pixels(d[1], d[2]) -> Palette]} : d \in ImageDims}

PreprocessImage ==
    /\ img_out = <<>>
    /\ img_out' = <<preprocess_image(img_in)>>
    /\ UNCHANGED <<dispatcher_vars, encoder_vars, text_vars, img_in>>

InitPre ==
    /\ InitIdle /\ InitEncoder /\ InitText
    /\ img_in \in RGBFrames
    /\ img_out = <<>>

SpecPre == InitPre /\ [][PreprocessImage]_vars

----------------------------------------------------------------------------
(* The claim about preprocess_image, checked under SpecPre.                *)

Preprocessed == img_out # <<>>

Samples(img) == {img.px[p] : p \in DOMAIN img.px}

\* C9 as stated: for a frame of width w and height h the result is 2w wide and
\* 2h high, single-channel, and each of its samples is 0 or 255.
C9_ResultIsBinary ==
    Preprocessed =>
        LET result == img_out[1].result
        IN  /\ result.w = 2 * img_in.w /\ result.h = 2 * img_in.h
            /\ DOMAIN result.px = Pixels(2 * img_in.w, 2 * img_in.h)
            /\ result.mode = "L"
            /\ Samples(result) \subseteq {0, 255}

\* C9 as amended: the result is 2w wide and 2h high and single-channel; each
\* sample is 0 or 255 before the upscale, and the upscale interpolates between
\* them: the samples of the result lie in 0..255, and they are sure to be 0
\* or 255 only when the binarized frame has one value throughout, which the
\* result then has too.
C9_ResultIsInterpolated ==
    Preprocessed =>
        LET result == img_out[1].result
            binary == img_out[1].binary
        IN  /\ result.w = 2 * img_in.w /\ result.h = 2 * img_in.h
            /\ DOMAIN result.px = Pixels(2 * img_in.w, 2 * img_in.h)
            /\ result.mode = "L"
            /\ Samples(binary) \subseteq {0, 255}
            /\ Samples(result) \subseteq 0..255
            /\ Cardinality(Samples(binary)) = 1 => Samples(result) = Samples(binary)

\* C9 witness: a 3 x 3 frame with one green sample in the middle, whose result
\* is 6 x 6 and has samples between 0 and 255
C9_Witness ==
    /\ Preprocessed
    /\ img_in.w = 3 /\ img_in.h = 3
    /\ img_in.px[<<1, 1>>] = <<0, 255, 0>>
    /\ \A p \in DOMAIN img_in.px : p # <<1, 1>> => img_in.px[p] = <<0, 0, 0>>
    /\ img_out[1].result.w = 6 /\ img_out[1].result.h = 6
    /\ \E v \in Samples(img_out[1].result) : 0 < v /\ v < 255

----------------------------------------------------------------------------
(* The claims about the capture logger, checked under Spec.                *)

CaptureTools == {"capture_screen", "get_screen_text", "execute_and_read"}

\* invocation i ends in this step
Finishes(i) == out = NoOut /\ out' # NoOut /\ out'.id = i

\* the segment that ended invocation i, run again from the state it started
\* in, with the log directory dir and the log write coming out as l
Replay(i, dir, l) ==
    Run(Program(out'.name, out'.args), IF inv[i] = Idle THEN 1 ELSE inv[i].pc,
        [Machine(i) EXCEPT !.log_dir = dir], [out'.env EXCEPT !.log = l])

\* the log events that did not end in a saved file
FailedLogs(ev) == {k \in 1..Len(ev) : ev[k][1] = "log" /\ ev[k][3] # "saved"}

\* C11: for capture_screen, get_screen_text and execute_and_read, with the same
\* frame, encoder and engine behaviour, the result is the same whether the log
\* write succeeds, fails or logging is disabled; a failed log write raises
\* nothing, gives no error result of its own and is followed by the encoding
\* or the recognition.
C11_LogNonInterference ==
    [][\A i \in DOMAIN inv :
         (Finishes(i) /\ out'.name \in CaptureTools) =>
            /\ \A dir \in LogDirs, l \in LogOutcomes :
                  LET r == Replay(i, dir, l)
                  IN  /\ r.status = out'.status
                      /\ r.result = out'.result
                      /\ r.exc = out'.exc
            /\ out'.exc.msg \notin LogOutcomes
            /\ \A k \in FailedLogs(out'.ev) :
                  \/ k < Len(out'.ev) /\ out'.ev[k + 1][1] \in {"save", "preprocess"}
                  \/ out'.exc.msg \in PreprocessFailures]_vars

\* C11 witness: a capture_screen whose log write failed and that returned the image
C11_Witness ==
    /\ Finished /\ out.name = "capture_screen"
    /\ FailedLogs(out.ev) # {}
    /\ out.ev[Len(out.ev)][1] = "save"
    /\ out.result[1].type = "image"

\* C12: while no log directory is configured, no invocation writes a log file,
\* creates the log directory, attempts a log write or ends with an error of
\* the logger.
C12_DisabledLogWritesNothing ==
    [][capture_log_dir = None =>
          /\ disk' = disk
          /\ out' # NoOut =>
                /\ EventsOf(out'.ev, {"log"}) = <<>>
                /\ out'.exc.msg \notin LogOutcomes]_vars

\* C12 witness: an execute_and_read that read the screen with logging disabled
C12_Witness ==
    /\ capture_log_dir = None
    /\ Finished /\ out.name = "execute_and_read" /\ out.exc = NoExc
    /\ Len(EventsOf(out.ev, {"recognize"})) = 1
    /\ disk = NoDisk

----------------------------------------------------------------------------
(* The capture logger with a clock that advances: the three capture tools, *)
(* one frame, every outcome of the log write.                              *)

MaxClock == 1

\* datetime.now() moves on by a second
Tick ==
    /\ clock < MaxClock
    /\ clock' = clock + 1
    /\ UNCHANGED <<client, ocr, made, capture_log_dir, disk, inv, out,
                   encoder_vars, text_vars, image_vars>>

LogEnvs == {[EnvOk EXCEPT !.frame = f, !.log = l] : f \in TextFrames, l \in LogOutcomes}

log_capture_screen == \E i \in DOMAIN inv : Call(i, "capture_screen", NoArgs, LogEnvs)

log_get_screen_text == \E i \in DOMAIN inv : Call(i, "get_screen_text", NoArgs, LogEnvs)

log_execute_and_read ==
    \E i \in DOMAIN inv : Call(i, "execute_and_read", {[command |-> <<"l", "s">>]}, {EnvOk})

\* the awaits of execute_and_read end; its last segment fetches and logs the frame
log_resume ==
    \E i \in DOMAIN inv :
        /\ out = NoOut
        /\ inv[i] # Idle
        /\ \E env \in LogEnvs :
              Commit(i, inv[i].name, inv[i].args,
                     Run(Program(inv[i].name, inv[i].args), inv[i].pc, Machine(i), env), env)

NextClock ==
    \/ log_capture_screen
    \/ log_get_screen_text
    \/ log_execute_and_read
    \/ log_resume
    \/ Deliver
    \/ Tick

SpecClock == Init /\ [][NextClock]_vars

\* the log writes of an invocation that saved a file
SavedLogs(ev) == {k \in 1..Len(ev) : ev[k][1] = "log" /\ ev[k][3] = "saved"}

\* C13 as stated: every log write that succeeds adds a file to the log
\* directory, so that k successful writes leave k distinct files, also when
\* two captures with the same tag are taken within one second.
C13_OneFilePerLoggedCapture ==
    [][\A i \in DOMAIN inv :
         (Finishes(i) /\ SavedLogs(out'.ev) # {}) =>
            Cardinality(disk'.files) = Cardinality(disk.files) + 1]_vars

----------------------------------------------------------------------------
(* Several invocations pending at once: each request is handled in a task  *)
(* of its own, and a task gives way to the others at its awaits only.      *)

MaxPending == 2

DragArgsPending == {[start_x |-> 1, start_y |-> 2, end_x |-> 3, end_y |-> 4]}

ExecuteArgsPending == {[command |-> <<"l", "s">>, wait_seconds |-> 2000]}

ReadEnvsPending == RemoteFailEnvs \cup {[EnvOk EXCEPT !.frame = f] : f \in TextFrames}

pending_mouse_drag ==
    \E i \in DOMAIN inv : Call(i, "mouse_drag", DragArgsPending, RemoteEnvs({Ack}))

pending_execute_and_read ==
    \E i \in DOMAIN inv : Call(i, "execute_and_read", ExecuteArgsPending, RemoteEnvs({Ack}))

pending_mouse_click ==
    \E i \in DOMAIN inv : Call(i, "mouse_click", {<<>>}, RemoteEnvs({Ack}))

pending_get_screen_text ==
    \E i \in DOMAIN inv : Call(i, "get_screen_text", NoArgs, ReadEnvsPending)

InitPending ==
    /\ client = None
    /\ ocr = None
    /\ made = [clients |-> 0, connects |-> 0, ocrs |-> 0]
    /\ capture_log_dir = None
    /\ disk = NoDisk
    /\ clock = 0
    /\ inv = [i \in 1..MaxPending |-> Idle]
    /\ out = NoOut
    /\ InitEncoder /\ InitText /\ InitImage

NextPending ==
    \/ pending_mouse_drag
    \/ pending_execute_and_read
    \/ pending_mouse_click
    \/ pending_get_screen_text
    \/ resume
    \/ Deliver

SpecPending == InitPending /\ [][NextPending]_vars

----------------------------------------------------------------------------
(* The claims about pending invocations, checked under SpecPending.        *)

Pending(i) == inv[i] # Idle

\* the remote calls invocation i has issued, before and after a step
RemoteCount(i) == Len(RemoteCalls(inv[i].ev))

RemoteCountAfter(i) ==
    IF out = NoOut /\ out' # NoOut /\ out'.id = i THEN Len(RemoteCalls(out'.ev))
    ELSE Len(RemoteCalls(inv'[i].ev))

\* the step issues a remote call of invocation i
Issues(i) == RemoteCountAfter(i) > RemoteCount(i)

\* the step is one of invocation i
Acts(i) == inv'[i] # inv[i]

\* invocation j has issued the first of its remote calls and not yet the last
MidSequence(j) ==
    /\ Pending(j)
    /\ inv[j].name \in {"mouse_drag", "execute_and_read"}
    /\ RemoteCount(j) \in 1..2

\* invocation j is suspended at one of the two waits of its tool
AtWait(j) ==
    LET a == inv[j].args
        sh == Shapes(EventsOf(inv[j].ev, {"remote", "sleep"}))
        button == GetOr(a, "button", "left")
        down == <<"remote", "mouse_down", <<button, a.start_x, a.start_y>>>>
        move == <<"remote", "mouse_move", <<a.end_x, a.end_y>>>>
        type == <<"remote", "type_text", <<a.command>>>>
        enter == <<"remote", "send_key", <<"enter">>>>
        wait == <<"sleep", GetOr(a, "wait_seconds", 1000)>>
    IN  IF inv[j].name = "mouse_drag"
        THEN sh \in {<<down, <<"sleep", 50>>>>, <<down, <<"sleep", 50>>, move, <<"sleep", 50>>>>}
        ELSE sh \in {<<type, <<"sleep", 100>>>>, <<type, <<"sleep", 100>>, enter, wait>>}

\* C14: at most one KvmClient and at most one TerminalOCR are ever made and
\* connect() is called at most once; a handle is made by an invocation that
\* uses it (the client by the first invocation, the engine by the first one
\* that recognizes text), and once made it is never replaced, whatever the
\* order and interleaving of the invocations.
C14_SingletonHandles ==
    [][/\ made'.clients <= 1 /\ made'.connects <= 1 /\ made'.ocrs <= 1
       /\ made'.clients = 0 <=> client' = None
       /\ made'.ocrs = 0 <=> ocr' = None
       /\ client # None => client' = client /\ made'.clients = made.clients
                                            /\ made'.connects = made.connects
       /\ ocr # None => ocr' = ocr /\ made'.ocrs = made.ocrs
       /\ made'.clients > made.clients => \E i \in DOMAIN inv : Acts(i) \/ Finishes(i)
       /\ made'.ocrs > made.ocrs =>
             \E i \in DOMAIN inv :
                /\ Finishes(i)
                /\ out'.name \in {"get_screen_text", "execute_and_read"}
                /\ \E k \in 1..Len(out'.ev) : out'.ev[k][1] = "decode"]_vars

\* C14 witness: while a mouse_drag is pending, a get_screen_text has gone
\* through the handle an earlier invocation made, without connecting again
C14_Witness ==
    /\ \E j \in DOMAIN inv : Pending(j) /\ inv[j].name = "mouse_drag"
    /\ Finished /\ out.name = "get_screen_text" /\ out.exc = NoExc
    /\ EventsOf(out.ev, {"connect"}) = <<>>
    /\ \E k \in 1..Len(out.ev) : out.ev[k][1] = "remote" /\ out.ev[k][4] = "Connected"
    /\ made = [clients |-> 1, connects |-> 1, ocrs |-> 1]

\* C16 as stated: while a mouse_drag or an execute_and_read is between its
\* first and its last remote call, no remote call of another invocation is
\* issued.
C16_NoForeignCallInSequence ==
    [][\A i, j \in DOMAIN inv : (i # j /\ MidSequence(j)) => ~Issues(i)]_vars

\* C16 as amended: a remote call of another invocation is issued between the
\* first and the last remote call of a mouse_drag or an execute_and_read only
\* while that invocation is suspended at one of its two waits (after down or
\* move, after type or enter), and the step that issues it is a step of that
\* other invocation alone.
C16_ForeignCallsOnlyAtWaits ==
    [][\A i, j \in DOMAIN inv :
         (i # j /\ MidSequence(j) /\ Issues(i)) =>
            /\ AtWait(j)
            /\ inv'[j] = inv[j]
            /\ \A k \in DOMAIN inv \ {i} : ~Issues(k)]_vars

\* C16 witness: a mouse_click went out while a mouse_drag had pressed the
\* button and not yet released it
C16_Witness ==
    \E j \in DOMAIN inv :
        /\ MidSequence(j) /\ inv[j].name = "mouse_drag"
        /\ Finished /\ out.id # j /\ out.name = "mouse_click" /\ out.exc = NoExc
        /\ Len(RemoteCalls(out.ev)) = 1

\* C19: an invocation is suspended only at the two waits of mouse_drag and
\* the two waits of execute_and_read, each remote call it has issued is
\* complete by then, and the frame fetch, the log write and the recognition
\* are never split by a suspension: no pending invocation has fetched a frame.
C19_SuspendedOnlyAtWaits ==
    \A i \in DOMAIN inv :
        Pending(i) =>
            /\ inv[i].name \in {"mouse_drag", "execute_and_read"}
            /\ Program(inv[i].name, inv[i].args)[inv[i].pc - 1].op = "sleep"
            /\ Last(inv[i].ev)[1] = "sleep"
            /\ Len(EventsOf(inv[i].ev, {"sleep"})) \in 1..2
            /\ Len(EventsOf(inv[i].ev, {"sleep"})) = RemoteCount(i)
            /\ EventsOf(inv[i].ev, {"decode", "log", "preprocess", "recognize", "save"}) = <<>>
            /\ \A k \in 1..Len(inv[i].ev) :
                  inv[i].ev[k][1] = "remote" => inv[i].ev[k][2] # "capture_frame_jpeg"

\* C19 witness: an execute_and_read at its second wait and a mouse_drag at its
\* first, both pending
C19_Witness ==
    \E i, j \in DOMAIN inv :
        /\ Pending(i) /\ inv[i].name = "execute_and_read" /\ RemoteCount(i) = 2
        /\ Pending(j) /\ inv[j].name = "mouse_drag" /\ RemoteCount(j) = 1

----------------------------------------------------------------------------
(* Further claims about the dispatcher, checked under Spec.                *)

\* C15: within one invocation no remote operation is issued twice and
\* connect() is called at most once; a remote call that fails is the last
\* thing the invocation does, and it is reported in one text item
\* "Error: " followed by the message.
C15_NoRetries ==
    Finished =>
        LET rc == RemoteCalls(out.ev)
        IN  /\ \A k, l \in 1..Len(rc) : k # l => rc[k][2] # rc[l][2]
            /\ Len(EventsOf(out.ev, {"connect"})) <= 1
            /\ out.exc.msg \in RemoteFailures =>
                  /\ out.exc.cls = "KvmClientError"
                  /\ Last(out.ev)[1] = "remote"
                  /\ out.result = <<TextContent(<<"Error: ", out.exc.msg>>)>>

\* C15 witness: an execute_and_read whose send_key("enter") failed after its
\* type_text went through
C15_Witness ==
    /\ Finished /\ out.name = "execute_and_read"
    /\ out.exc.msg \in RemoteFailures
    /\ Len(RemoteCalls(out.ev)) = 2
    /\ Last(out.ev)[2] = "send_key"

\* C17: list_capture_devices answers the text "No capture devices found."
\* when the response has an empty device list or none, and the serialized
\* device list when the response names at least one device.
C17_NoDevicesMessage ==
    (Finished /\ out.name = "list_capture_devices" /\ out.exc = NoExc) =>
        LET resp == out.env.resp
        IN  /\ Len(out.result) = 1
            /\ out.result[1].type = "text"
            /\ IF "devices" \notin DOMAIN resp \/ Len(resp.devices) = 0
               THEN out.result[1].text = <<"No capture devices found.">>
               ELSE out.result[1].text = <<"json", resp.devices>>

\* C17 witness: a response without a device list
C17_Witness ==
    /\ Finished /\ out.name = "list_capture_devices" /\ out.exc = NoExc
    /\ "devices" \notin DOMAIN out.env.resp
    /\ out.result[1].text = <<"No capture devices found.">>

\* C18: an invocation gives exactly one item, a text item or an image item;
\* it is an image item, of MIME type image/jpeg, exactly when the tool is
\* capture_screen and nothing failed, the frame having been fetched and
\* encoded.
C18_OneResultVariant ==
    Finished =>
        /\ Len(out.result) = 1
        /\ out.result[1].type \in {"text", "image"}
        /\ out.result[1].type = "image" <=> (out.name = "capture_screen" /\ out.exc = NoExc)
        /\ out.result[1].type = "image" =>
              /\ DOMAIN out.result[1] = {"type", "data", "mimeType"}
              /\ out.result[1].mimeType = "image/jpeg"
              /\ Len(EventsOf(out.ev, {"decode"})) = 1
              /\ Last(out.ev)[1] = "save"
        /\ out.result[1].type = "text" => DOMAIN out.result[1] = {"type", "text"}

\* C18 witness: a capture_screen whose encoding failed, answered by a text item
C18_Witness ==
    /\ Finished /\ out.name = "capture_screen"
    /\ out.exc.msg \in EncodeFailures
    /\ out.result[1].type = "text"

\* the remote operation of each tool that makes one call
SingleCall ==
    [type_text |-> "type_text", send_key |-> "send_key",
     send_key_sequence |-> "send_key_sequence", mouse_move |-> "mouse_move",
     mouse_click |-> "mouse_click", mouse_scroll |-> "mouse_scroll",
     get_device_info |-> "get_device_info", list_capture_devices |-> "list_capture_devices",
     set_capture_resolution |-> "set_capture_resolution",
     set_capture_device |-> "set_capture_device", capture_screen |-> "capture_frame_jpeg",
     get_screen_text |-> "capture_frame_jpeg"]

\* C20: an invocation of a single-call tool that does not fail issues exactly
\* one remote call, that of its tool, and never waits; send_key_sequence
\* passes the steps it was given, in their order, in that one call.
C20_OneRemoteOperation ==
    (Finished /\ out.name \in DOMAIN SingleCall /\ out.exc = NoExc) =>
        LET rc == RemoteCalls(out.ev)
        IN  /\ Len(rc) = 1
            /\ rc[1][2] = SingleCall[out.name]
            /\ EventsOf(out.ev, {"sleep"}) = <<>>
            /\ out.name = "send_key_sequence" =>
                  rc[1][3] = <<out.args.steps, GetOr(out.args, "default_delay_ms", 100)>>

\* C20 witness: a send_key_sequence of two different steps
C20_Witness ==
    /\ Finished /\ out.name = "send_key_sequence" /\ out.exc = NoExc
    /\ Len(out.args.steps) = 2
    /\ out.args.steps[1] # out.args.steps[2]
    /\ RemoteCalls(out.ev)[1][3][1] = out.args.steps

----------------------------------------------------------------------------
(* _postprocess_text on the texts the corrections apply to.                *)

MaxCorrectionLen == 8

CorrectionAlphabet == {" ", "|", "s", NL}

InitCorrections ==
    /\ InitIdle /\ InitEncoder /\ InitImage
    /\ text_in \in TextsUpTo(CorrectionAlphabet, MaxCorrectionLen)
    /\ text_out = <<>>

SpecCorrections == InitCorrections /\ [][PostprocessText]_vars

\* the orders the corrections can be applied in
Orders == {p \in [1..Len(safe_corrections) -> 1..Len(safe_corrections)] :
             \A i, j \in DOMAIN p : i # j => p[i] # p[j]}

\* _postprocess_text with the corrections applied in the order p
PostprocessedInOrder(text, p) ==
    strip(ApplyCorrections(CollapseNewlines(Join(CleanedLines(text))),
                           [k \in DOMAIN p |-> safe_corrections[p[k]]]))

\* C21: the three corrections give the same text in each of the 6 orders they
\* can be applied in: the text _postprocess_text returns is the one every
\* order gives.
C21_OrderIndependent ==
    Postprocessed =>
        /\ Cardinality(Orders) = 6
        /\ \A p \in Orders : PostprocessedInOrder(text_in, p) = text_out[1]

\* C21 witness: a text in which two corrections apply to neighbouring words
\* that share a newline
C21_Witness ==
    /\ Postprocessed
    /\ text_in = <<" ", "|", "s", NL, "|", "s", " ", "s">>
    /\ text_out[1] = <<"l", "s", NL, "l", "s", " ", "s">>

----------------------------------------------------------------------------
(* Failures of multi-step invocations and of connect(), checked under Spec.*)

\* the remote calls and waits of a mouse_drag or execute_and_read that does
\* not fail
FullSequence(name, a) ==
    IF name = "mouse_drag"
    THEN LET button == GetOr(a, "button", "left")
         IN  << <<"remote", "mouse_down", <<button, a.start_x, a.start_y>>>>,
                <<"sleep", 50>>,
                <<"remote", "mouse_move", <<a.end_x, a.end_y>>>>,
                <<"sleep", 50>>,
                <<"remote", "mouse_up", <<button, a.end_x, a.end_y>>>> >>
    ELSE << <<"remote", "type_text", <<a.command>>>>,
            <<"sleep", 100>>,
            <<"remote", "send_key", <<"enter">>>>,
            <<"sleep", GetOr(a, "wait_seconds", 1000)>>,
            <<"remote", "capture_frame_jpeg", <<85>>>> >>

\* the calls of mouse_up among the events
ButtonUps(ev) == LET IsUp(e) == e[1] = "remote" /\ e[2] = "mouse_up" IN SelectSeq(ev, IsUp)

\* C22: a mouse_drag or execute_and_read ends at its first failing remote
\* call: what it did is its sequence of calls and waits up to the failing
\* call and nothing after it, and it returns the text "Error: ..."; when the
\* failing call of a mouse_drag is the move or the up, the button pressed by
\* the down is not released by a successful mouse_up.
C22_AbortAtFirstFailure ==
    (Finished /\ out.name \in {"mouse_drag", "execute_and_read"}
              /\ out.exc.msg \in RemoteFailures) =>
        LET done == Shapes(EventsOf(out.ev, {"remote", "sleep"}))
            full == FullSequence(out.name, out.args)
        IN  /\ Len(done) \in {1, 3, 5}
            /\ done = SubSeq(full, 1, Len(done))
            /\ Last(out.ev)[1] = "remote"
            /\ EventsOf(out.ev, {"decode", "log", "preprocess", "recognize"}) = <<>>
            /\ Len(ButtonUps(SubSeq(out.ev, 1, Len(out.ev) - 1))) = 0
            /\ Len(ButtonUps(out.ev)) = IF out.name = "mouse_drag" /\ Len(done) = 5 THEN 1 ELSE 0
            /\ out.status = "returned"
            /\ out.result = <<TextContent(<<"Error: ", out.exc.msg>>)>>

\* C22 witness: a mouse_drag whose mouse_move failed after the button went
\* down, and that ended without a mouse_up
C22_Witness ==
    /\ Finished /\ out.name = "mouse_drag"
    /\ out.exc.msg \in RemoteFailures
    /\ Len(RemoteCalls(out.ev)) = 2
    /\ Last(out.ev)[2] = "mouse_move"
    /\ ButtonUps(out.ev) = <<>>
    /\ out.result[1].type = "text"

\* C23 as stated: every remote call goes through a handle whose connect()
\* succeeded; no later invocation issues one through a handle whose connect()
\* failed and that was kept as the shared handle.
C23_OnlyConnectedHandles ==
    /\ \A k \in 1..Len(out.ev) : out.ev[k][1] = "remote" => out.ev[k][4] = "Connected"
    /\ \A i \in DOMAIN inv : \A k \in 1..Len(inv[i].ev) :
          inv[i].ev[k][1] = "remote" => inv[i].ev[k][4] = "Connected"

====
